---- MODULE Spec2Model ----
(***************************************************************************)
(* Model of pxdogbo/mapposter: the Replicate styling client                *)
(* (replicate_style.py) and the theme persistence layer of the editor     *)
(* (streamlit_ui.py): local theme files, the hidden-themes list and the    *)
(* GitHub contents API used as the remote store.                           *)
(***************************************************************************)
EXTENDS Integers, Sequences, FiniteSets, TLC

VARIABLES
    \* ---- style_with_replicate (replicate_style.py) ----
    sPc,          \* position of the styling job
    attempt,      \* outer loop variable, range(2)
    retry,        \* inner loop variable, range(max_retries)
    model_input,  \* "image" = {"prompt","image"}, "prompt" = {"prompt"}
    output,       \* value returned by replicate.run, NoOutput while None
    last_error,   \* last exception caught, NoError while None
    trace,        \* sleeps, backend invocations and mode switches, in order
    calls,        \* each backend invocation with its answer, in order
    result,       \* what style_with_replicate returned
    outFile,      \* the file at <stem><suffix><ext>
    outFileAtStart,
    installed,    \* the replicate package can be imported
    \* ---- theme persistence (streamlit_ui.py) ----
    token,        \* GITHUB_TOKEN configured
    files,        \* themes/<stem>.json, by stem
    remote,       \* GitHub contents of themes/<id>.json, by id
    tPc,          \* position of the editor's current action
    op,           \* locals of the action in progress
    netlog,       \* requests issued by the action in progress
    ret,          \* what the last finished call returned
    deleted,      \* ids for which delete_theme_from_file returned True
    created,      \* ids whose remote resource a push of this session created
    \* ---- load_theme_colors (streamlit_ui.py) ----
    lPc,          \* "input" before the call, "loaded" after it
    theme_name,   \* the argument of load_theme_colors
    stored,       \* the record create_map_poster.load_theme gives for it
    loaded,       \* what load_theme_colors returned
    \* ---- the colour and palette functions, called on their own ----
    fPc,          \* "input" before the call, "done" after it
    arg,          \* the argument of the call
    res,          \* what the call returned
    \* ---- the editor session (streamlit_ui.py, st.session_state) ----
    ePc,          \* "ready", or "rerun" when st.rerun() was called
    theme_colors, \* st.session_state.theme_colors
    palette_version, \* st.session_state["palette_version"]
    pickers,      \* widget state of the colour pickers
    message,      \* the last st.success / st.error of the paste section
    theme_select, \* st.session_state["theme_select"], "" while not set
    last_theme    \* st.session_state.last_theme, "" while not set

styleVars == <<sPc, attempt, retry, model_input, output, last_error, trace,
               calls, result, outFile, outFileAtStart, installed>>
themeVars == <<token, files, remote, tPc, op, netlog, ret, deleted, created>>
loadVars == <<lPc, theme_name, stored, loaded>>
funcVars == <<fPc, arg, res>>
editorVars == <<ePc, theme_colors, palette_version, pickers, message,
                theme_select, last_theme>>
vars == <<styleVars, themeVars, loadVars, funcVars, editorVars>>

(***************************************************************************)
(* Styling client                                                          *)
(***************************************************************************)

max_retries == 3

\* An exception is modelled by the keywords its lower-cased text contains.
ErrorMessages ==
    { {}, {"429"}, {"throttl"}, {"image"}, {"unexpected"}, {"invalid"},
      {"429", "image"}, {"throttl", "invalid"} }

\* Shapes of a value replicate.run can return, or of an element of a list.
\* FileOutput has read(); UrlOnly has .url but no read(); HttpStr is a str
\* starting with "http"; OtherStr any other str; Other is any other object.
Scalars == {"FileOutput", "UrlOnly", "HttpStr", "OtherStr", "Other"}

NoOutput == [tag |-> "none", s |-> "-", items |-> <<>>]
ScalarOut(s) == [tag |-> "scalar", s |-> s, items |-> <<>>]
ListOut(items) == [tag |-> "list", s |-> "-", items |-> items]

Outputs ==
    {NoOutput} \cup {ScalarOut(s) : s \in Scalars}
      \cup {ListOut(<<>>)}
      \cup {ListOut(<<x>>) : x \in Scalars \cup {"None"}}
      \cup {ListOut(<<"FileOutput", "Other">>), ListOut(<<"Other", "FileOutput">>)}

NoError == [raised |-> FALSE, msg |-> {}]
Error(m) == [raised |-> TRUE, msg |-> m]

Responses ==
    {[ok |-> TRUE, out |-> o, err |-> NoError] : o \in Outputs}
      \cup {[ok |-> FALSE, out |-> NoOutput, err |-> Error(m)] : m \in ErrorMessages}

IsRateLimited_429Only(e) == "429" \in e.msg

\* "429" in err_str or "throttl" in err_str
IsRateLimited(e) == "429" \in e.msg \/ "throttl" \in e.msg

IsImageRejected_Always(e) == TRUE

\* "image" in err_str or "unexpected" in err_str or "invalid" in err_str
IsImageRejected(e) ==
    "image" \in e.msg \/ "unexpected" \in e.msg \/ "invalid" \in e.msg

MaySwitch_AnyAttempt(att, e) == IsImageRejected(e)

\* Line 76: attempt == 0 and ("image" in err_str or ...)
MaySwitch(att, e) == att = 0 /\ IsImageRejected(e)

NoResult == [status |-> "-", n |-> 0]
Failed == [status |-> "Failed", n |-> 0]
Raised == [status |-> "Raised", n |-> 0]
Succeeded(n) == [status |-> "Succeeded", n |-> n]

extract_output_file_NoList(o) ==
    IF o.tag = "scalar" /\ o.s \in {"FileOutput", "UrlOnly", "HttpStr", "OtherStr"}
      THEN o.s ELSE "None"

\* _extract_output_file: the shape of the object it returns, "None" for None
extract_output_file(o) ==
    IF o.tag = "none" THEN "None"
    ELSE IF o.tag = "scalar" /\ o.s \in {"FileOutput", "UrlOnly"} THEN o.s
    ELSE IF o.tag = "list" /\ Len(o.items) > 0 THEN o.items[1]
    ELSE IF o.tag = "scalar" /\ o.s \in {"HttpStr", "OtherStr"} THEN o.s
    ELSE "None"

StyleInit ==
    /\ sPc = "idle"
    /\ attempt = 0
    /\ retry = 0
    /\ model_input = "image"
    /\ output = NoOutput
    /\ last_error = NoError
    /\ trace = <<>>
    /\ calls = <<>>
    /\ result = NoResult
    /\ outFile \in {"absent", "old"}
    /\ outFileAtStart = outFile
    /\ installed \in BOOLEAN

ImportFails_Never == FALSE

\* Lines 39-43: `import replicate` raises ImportError.
ImportFails == ~installed

\* Lines 39-53: import replicate, the image-exists check, the default prompt.
StartJob(imgExists) ==
    /\ sPc = "idle"
    /\ IF ImportFails \/ ~imgExists
         THEN /\ sPc' = "done"
              /\ result' = Failed
         ELSE /\ sPc' = "warmup"
              /\ result' = NoResult
    /\ outFileAtStart' = outFile
    /\ UNCHANGED <<attempt, retry, model_input, output, last_error, trace,
                   calls, outFile, installed>>

\* Lines 55-62: the warm-up sleep, then the locals of the retry loops.
WarmUp ==
    /\ sPc = "warmup"
    /\ trace' = Append(trace, "warmup")
    /\ model_input' = "image"
    /\ output' = NoOutput
    /\ last_error' = NoError
    /\ attempt' = 0
    /\ retry' = 0
    /\ sPc' = "invoke"
    /\ UNCHANGED <<calls, result, outFile, outFileAtStart, installed>>

\* Lines 82-83 and the outer for: after the inner loop was left by break.
\* Gives <<next pc, next attempt>>.
AfterInnerLoop(out, att) ==
    IF out # NoOutput THEN <<"finish", att>>
    ELSE IF att < 1 THEN <<"invoke", att + 1>>
    ELSE <<"finish", att>>

RunEvent(m) == IF m = "image" THEN "run_image" ELSE "run_prompt"

\* One entry of the log of backend invocations: the answer and the loop
\* variables and input mode the call was made with.
Call(r, att, ret_, m) ==
    [ok |-> r.ok, out |-> r.out, err |-> r.err, attempt |-> att, retry |-> ret_, mode |-> m]

\* Lines 66-83: one replicate.run call and the handling of its outcome.
Invoke(r) ==
    /\ sPc = "invoke"
    /\ calls' = Append(calls, Call(r, attempt, retry, model_input))
    /\ IF r.ok
         THEN \* output = replicate.run(...); break
              /\ output' = r.out
              /\ trace' = Append(trace, RunEvent(model_input))
              /\ sPc' = AfterInnerLoop(r.out, attempt)[1]
              /\ attempt' = AfterInnerLoop(r.out, attempt)[2]
              /\ retry' = IF AfterInnerLoop(r.out, attempt)[1] = "invoke" THEN 0 ELSE retry
              /\ UNCHANGED <<last_error, model_input, result>>
         ELSE /\ last_error' = r.err
              /\ IF retry < max_retries - 1 /\ IsRateLimited(r.err)
                   THEN \* the sleep and the continue are the Backoff step
                        /\ trace' = Append(trace, RunEvent(model_input))
                        /\ sPc' = "backoff"
                        /\ UNCHANGED <<attempt, retry, model_input, output, result>>
                   ELSE IF MaySwitch(attempt, r.err)
                   THEN \* model_input = {"prompt": prompt}; break
                        /\ model_input' = "prompt"
                        /\ trace' = trace \o <<RunEvent(model_input), "switch">>
                        /\ sPc' = AfterInnerLoop(output, attempt)[1]
                        /\ attempt' = AfterInnerLoop(output, attempt)[2]
                        /\ retry' = 0
                        /\ UNCHANGED <<output, result>>
                   ELSE \* return None
                        /\ trace' = Append(trace, RunEvent(model_input))
                        /\ sPc' = "done"
                        /\ result' = Failed
                        /\ UNCHANGED <<attempt, retry, model_input, output>>
    /\ UNCHANGED <<outFile, outFileAtStart, installed>>

\* Lines 73-75: time.sleep(REPLICATE_RETRY_WAIT); continue
Backoff ==
    /\ sPc = "backoff"
    /\ trace' = Append(trace, "backoff")
    /\ retry' = retry + 1
    /\ sPc' = "invoke"
    /\ UNCHANGED <<attempt, model_input, output, last_error, calls, result,
                   outFile, outFileAtStart, installed>>

\* Lines 85-114: extraction of the output file and the write to disk.
\* fetchOk: whether urllib.request.urlopen(...).read() succeeds.
Finish(fetchOk) ==
    /\ sPc = "finish"
    /\ sPc' = "done"
    /\ LET f == extract_output_file(output)
           n == Len(calls)
       IN IF output = NoOutput /\ last_error.raised
            THEN result' = Failed /\ UNCHANGED outFile
          ELSE IF f = "None"
            THEN result' = Failed /\ UNCHANGED outFile
          ELSE IF f = "FileOutput"
            THEN result' = Succeeded(n) /\ outFile' = "written"
          ELSE IF f \in {"UrlOnly", "HttpStr"}
            THEN IF fetchOk
                   THEN result' = Succeeded(n) /\ outFile' = "written"
                   ELSE result' = Raised /\ outFile' = "empty"
          ELSE \* open(out_path, "wb") has truncated the file already
               result' = Failed /\ outFile' = "empty"
    /\ UNCHANGED <<attempt, retry, model_input, output, last_error, trace,
                   calls, outFileAtStart, installed>>

\* The next call of style_with_replicate starts from fresh locals.
NewJob ==
    /\ sPc = "done"
    /\ sPc' = "idle"
    /\ attempt' = 0
    /\ retry' = 0
    /\ model_input' = "image"
    /\ output' = NoOutput
    /\ last_error' = NoError
    /\ trace' = <<>>
    /\ calls' = <<>>
    /\ result' = NoResult
    /\ outFileAtStart' = outFile
    /\ UNCHANGED <<outFile, installed>>

(***************************************************************************)
(* Theme persistence: local files, hidden list, GitHub contents API        *)
(***************************************************************************)

THEME_KEYS ==
    {"bg", "text", "water", "parks", "gradient_color", "road_motorway",
     "road_primary", "road_secondary", "road_tertiary", "road_residential",
     "road_default"}

\* A theme dict as build_full_theme makes it: name, description and a colour
\* for every key of THEME_KEYS.
FullTheme(name, colour) ==
    [k \in THEME_KEYS \cup {"name", "description"} |->
       IF k = "name" THEN name
       ELSE IF k = "description" THEN "Saved from Streamlit UI"
       ELSE colour]

ThemeA == FullTheme("A", "#F5EDE4")
ThemeB == FullTheme("B", "#8B4513")
NoTheme == [k \in {"none"} |-> "none"]

\* The theme dicts the editor session hands to the persistence functions,
\* and that another writer of the repository pushes.
EditorThemes == {ThemeA, ThemeB}

\* HIDDEN_THEMES_FILE = THEMES_DIR / "hidden_themes.json" has the stem
\* "hidden_themes"; a theme with id t is the file THEMES_DIR / "<t>.json".
HIDDEN_THEMES_FILE == "hidden_themes"

\* Theme ids the session works with, in the order of the listing. The text
\* box of "Save as new" accepts any name, "hidden_themes" included.
IdOrder == <<"a", "b", "hidden_themes">>
ThemeIds == {IdOrder[i] : i \in 1..Len(IdOrder)}

\* The ids pushed to the remote store, by the session and by other writers.
PushIds == {"a"}

\* Contents of a file of the themes directory.
AbsentFile == [kind |-> "absent", theme |-> NoTheme, items |-> <<>>]
CorruptFile == [kind |-> "corrupt", theme |-> NoTheme, items |-> <<>>]
ThemeFile(t) == [kind |-> "theme", theme |-> t, items |-> <<>>]
ListFile(l) == [kind |-> "list", theme |-> NoTheme, items |-> l]

\* Contents of the remote resource themes/<id>.json.
AbsentRemote == [kind |-> "absent", theme |-> NoTheme]
RemoteTheme(t) == [kind |-> "theme", theme |-> t]

\* The version token of the GitHub contents API is the blob sha of the
\* content.
NoSha == "None"
ShaOf(c) ==
    IF c.kind = "absent" THEN NoSha
    ELSE IF c.theme = ThemeA THEN "sha_A" ELSE "sha_B"

NoOp ==
    [name |-> "none", id |-> "", theme |-> NoTheme, sha |-> NoSha,
     ghOk |-> FALSE, ghMsg |-> "", fetched |-> AbsentRemote,
     unlinked |-> FALSE, hidOk |-> FALSE,
     localTried |-> FALSE, localRaised |-> FALSE, shown |-> "-"]

NoRet == [op |-> "none", kind |-> "none", ok |-> FALSE, msg |-> ""]
Returned(o, ok, msg) == [op |-> o, kind |-> "returned", ok |-> ok, msg |-> msg]
RaisedIn(o) == [op |-> o, kind |-> "raised", ok |-> FALSE, msg |-> ""]
CrashedIn(o) == [op |-> o, kind |-> "crashed", ok |-> FALSE, msg |-> ""]

\* A request of the log with the status of its answer, 0 when
\* requests raised instead of returning a response.
Request(m, id, sha, status) == [m |-> m, id |-> id, sha |-> sha, status |-> status]

ThemeInit ==
    /\ token \in BOOLEAN
    /\ files = [t \in ThemeIds |-> AbsentFile]
    /\ remote = [t \in ThemeIds |-> AbsentRemote]
    /\ tPc = "idle"
    /\ op = NoOp
    /\ netlog = <<>>
    /\ ret = NoRet
    /\ deleted = {}
    /\ created = {}

HasToken_Always == TRUE

\* Lines 266-271 and 311-316: token = st.secrets.get("GITHUB_TOKEN") ...
\* `if not token` is false.
HasToken == token

\* ---- save_theme_to_file, lines 252-258 ----
\* fsOk: whether open(path, "w") and the dump succeed (OSError otherwise).
save_theme_to_file(theme, filename, fsOk) ==
    /\ tPc = "idle"
    /\ IF fsOk
         THEN /\ files' = [files EXCEPT ![filename] = ThemeFile(theme)]
              /\ ret' = Returned("save", TRUE, "path")
         ELSE /\ UNCHANGED files
              /\ ret' = RaisedIn("save")
    /\ op' = [NoOp EXCEPT !.name = "save", !.id = filename, !.theme = theme]
    /\ netlog' = <<>>
    /\ UNCHANGED <<token, remote, tPc, deleted, created>>

\* ---- the remote store (GitHub contents API) ----
\* How a request ends. "deliver": the store answers it; "error": another
\* status comes back (401, 403, 5xx; 500 stands for them); "raise":
\* requests raises (connection error, timeout) and there is no answer.
How == {"deliver", "error", "raise"}
\* Answer gives the status of the response, 0 when there is none.
Answer(how, status) ==
    IF how = "deliver" THEN status ELSE IF how = "error" THEN 500 ELSE 0

\* Status of GET on a resource.
RemoteGetStatus(c) == IF c.kind = "theme" THEN 200 ELSE 404

\* Status of PUT with the given sha (NoSha when the payload has none).
RemotePutStatus(c, sha) ==
    IF c.kind = "absent" THEN (IF sha = NoSha THEN 201 ELSE 409)
    ELSE IF sha = NoSha THEN 422
    ELSE IF sha = ShaOf(c) THEN 200
    ELSE 409

\* Status of DELETE with the given sha.
RemoteDeleteStatus(c, sha) ==
    IF c.kind = "absent" THEN 404
    ELSE IF sha = ShaOf(c) THEN 200
    ELSE 409

RemoteMessage(status) ==
    IF status = 409 THEN "conflict"
    ELSE IF status = 422 THEN "sha wasn't supplied"
    ELSE IF status = 404 THEN "Not Found"
    ELSE "error"

\* ---- _save_theme_to_github, lines 261-304, called by the buttons ----
\* ---- "Update current theme" (line 997) and "Save as new" (1027) ----
\* Lines 266-288: the token check and the building of the request. The
\* function returns to the button's handler, which goes on at "save_local".
PushBegin(theme, filename) ==
    /\ tPc = "idle"
    /\ op' = [NoOp EXCEPT !.name = "push", !.id = filename, !.theme = theme]
    /\ netlog' = <<>>
    /\ IF ~HasToken
         THEN /\ ret' = Returned("push", FALSE, "GITHUB_TOKEN not configured")
              /\ tPc' = "save_local"
         ELSE /\ ret' = NoRet
              /\ tPc' = "push_get"
    /\ UNCHANGED <<token, files, remote, deleted, created>>

PushSha_Never(status, c) == NoSha

\* Line 292: sha = r.json().get("sha") if r.status_code == 200 else None
PushSha(status, c) == IF status = 200 THEN ShaOf(c) ELSE NoSha

\* Lines 290-292: requests.get. how = "deliver": the request reaches the
\* store; "error": another status comes back (401, 403, 5xx); "raise":
\* requests raises (connection error, timeout).
PushGet(how) ==
    /\ tPc = "push_get"
    /\ LET status == Answer(how, RemoteGetStatus(remote[op.id]))
       IN /\ netlog' = Append(netlog, Request("GET", op.id, NoSha, status))
          /\ IF how = "raise"
               THEN /\ ret' = RaisedIn("push")
                    /\ tPc' = "idle"
                    /\ UNCHANGED op
               ELSE /\ op' = [op EXCEPT !.sha = PushSha(status, remote[op.id]),
                                        !.fetched = remote[op.id]]
                    /\ tPc' = "push_put"
                    /\ UNCHANGED ret
    /\ UNCHANGED <<token, files, remote, deleted, created>>

PushReturn_OkBelow500(status) ==
    IF status < 500 THEN Returned("push", TRUE, "Saved to GitHub")
    ELSE Returned("push", FALSE, RemoteMessage(status))

\* Lines 302-304: the result made from the status of the PUT.
PushReturn(status) ==
    IF status \in {200, 201} THEN Returned("push", TRUE, "Saved to GitHub")
    ELSE Returned("push", FALSE, RemoteMessage(status))

\* Lines 294-304: the payload, requests.put and the result.
PushPut(how) ==
    /\ tPc = "push_put"
    /\ tPc' = IF how = "raise" THEN "idle" ELSE "save_local"
    /\ UNCHANGED op
    /\ LET status == Answer(how, RemotePutStatus(remote[op.id], op.sha))
       IN /\ netlog' = Append(netlog, Request("PUT", op.id, op.sha, status))
          /\ IF how = "raise"
              THEN /\ ret' = RaisedIn("push")
                   /\ UNCHANGED <<remote, created>>
              ELSE
                 /\ remote' = IF status \in {200, 201}
                                THEN [remote EXCEPT ![op.id] = RemoteTheme(op.theme)]
                                ELSE remote
                 /\ created' = IF status = 201 THEN created \cup {op.id} ELSE created
                 /\ ret' = PushReturn(status)
    /\ UNCHANGED <<token, files, deleted>>

\* ---- the save buttons after the push, lines 998-1015 and 1028-1041 ----
\* What the handler shows for the push result and the outcome of the local
\* save. After a push that succeeded the success message is shown first and
\* an OSError of save_theme_to_file is passed over; after a push that failed
\* the local save decides between the local success message and st.error.
ShownAfterLocal(ok, fsOk) ==
    IF ok THEN "remote_success"
    ELSE IF fsOk THEN "local_success"
    ELSE "error"

\* fsOk: whether save_theme_to_file succeeds (OSError otherwise).
SaveLocal(fsOk) ==
    /\ tPc = "save_local"
    /\ tPc' = "idle"
    /\ files' = IF fsOk THEN [files EXCEPT ![op.id] = ThemeFile(op.theme)] ELSE files
    /\ op' = [op EXCEPT !.localTried = TRUE,
                        !.localRaised = ~fsOk,
                        !.shown = ShownAfterLocal(ret.ok, fsOk)]
    /\ UNCHANGED <<token, remote, netlog, ret, deleted, created>>

\* ---- _load_hidden_themes, lines 353-361 ----
\* What json.load gives: a list, or the dict of a theme file; [] when the
\* file is missing or not JSON.
load_hidden_themes ==
    LET f == files[HIDDEN_THEMES_FILE]
    IN IF f.kind = "list" THEN [kind |-> "list", items |-> f.items, keys |-> {}]
       ELSE IF f.kind = "theme"
         THEN [kind |-> "dict", items |-> <<>>, keys |-> DOMAIN f.theme]
       ELSE [kind |-> "list", items |-> <<>>, keys |-> {}]

\* Python's `x in hidden` for a list and for a dict.
InHidden(x, hidden) ==
    IF hidden.kind = "list" THEN \E i \in 1..Len(hidden.items) : hidden.items[i] = x
    ELSE x \in hidden.keys

\* ---- the listing, lines 550-553 ----
\* create_map_poster.get_available_themes(): the ids that have a persisted
\* theme record, in order.
get_available_themes == SelectSeq(IdOrder, LAMBDA t : files[t].kind = "theme")

available ==
    <<"From scratch">> \o
      SelectSeq(get_available_themes, LAMBDA t : ~InHidden(t, load_hidden_themes))

\* ---- delete_theme_from_file, lines 371-396, with ----
\* ---- _delete_theme_from_github, lines 307-350     ----
\* Lines 376-380 and 311-331: the reserved id, then the token check of the
\* remote delete. The editor calls it for a theme of the listing (lines
\* 557-591).
DeleteBegin(theme_id) ==
    /\ tPc = "idle"
    /\ netlog' = <<>>
    /\ IF theme_id = "From scratch"
         THEN /\ op' = [NoOp EXCEPT !.name = "delete", !.id = theme_id]
              /\ ret' = Returned("delete", FALSE, "Cannot delete default theme")
              /\ tPc' = "idle"
         ELSE IF ~HasToken
         THEN /\ op' = [NoOp EXCEPT !.name = "delete", !.id = theme_id,
                                    !.ghMsg = "GITHUB_TOKEN not configured"]
              /\ ret' = NoRet
              /\ tPc' = "del_hidden"
         ELSE /\ op' = [NoOp EXCEPT !.name = "delete", !.id = theme_id]
              /\ ret' = NoRet
              /\ tPc' = "del_gh_get"
    /\ UNCHANGED <<token, files, remote, deleted, created>>

DeleteFound_Always(status) == TRUE

\* Lines 334-335: `if r.status_code != 200: return False, ...` is not taken.
DeleteFound(status) == status = 200

\* Lines 333-340: requests.get and the sha of the answer.
DeleteGet(how) ==
    /\ tPc = "del_gh_get"
    /\ LET status == Answer(how, RemoteGetStatus(remote[op.id]))
       IN /\ netlog' = Append(netlog, Request("GET", op.id, NoSha, status))
          /\ IF how = "raise"
              THEN /\ ret' = RaisedIn("delete")
                   /\ tPc' = "idle"
                   /\ UNCHANGED op
              ELSE
                 /\ UNCHANGED ret
                 /\ IF ~DeleteFound(status)
                      THEN /\ op' = [op EXCEPT !.ghMsg = "Theme not found on GitHub"]
                           /\ tPc' = "del_hidden"
                      ELSE /\ op' = [op EXCEPT !.sha = ShaOf(remote[op.id]),
                                               !.fetched = remote[op.id]]
                           /\ tPc' = "del_gh_delete"
    /\ UNCHANGED <<token, files, remote, deleted, created>>

\* Lines 342-350: requests.delete and the result.
DeleteRequest(how) ==
    /\ tPc = "del_gh_delete"
    /\ LET status == Answer(how, RemoteDeleteStatus(remote[op.id], op.sha))
       IN /\ netlog' = Append(netlog, Request("DELETE", op.id, op.sha, status))
          /\ IF how = "raise"
              THEN /\ ret' = RaisedIn("delete")
                   /\ tPc' = "idle"
                   /\ UNCHANGED <<op, remote>>
              ELSE
                 /\ remote' = IF status = 200
                                THEN [remote EXCEPT ![op.id] = AbsentRemote]
                                ELSE remote
                 /\ op' = [op EXCEPT !.ghOk = (status = 200),
                                     !.ghMsg = IF status = 200 THEN "Deleted from GitHub"
                                               ELSE RemoteMessage(status)]
                 /\ tPc' = "del_hidden"
                 /\ UNCHANGED ret
    /\ UNCHANGED <<token, files, deleted, created>>

HiddenAfterAppend_NotSaved(hidden, theme_id) == files[HIDDEN_THEMES_FILE]

\* Lines 388-389: hidden.append(theme_id); _save_hidden_themes(hidden):
\* the content of the hidden-themes file after the save.
HiddenAfterAppend(hidden, theme_id) == ListFile(Append(hidden.items, theme_id))

\* Lines 385-389: hidden = _load_hidden_themes(); append and save when the
\* id is not in it. On a dict `hidden.append` raises AttributeError.
DeleteHide(fsOk) ==
    /\ tPc = "del_hidden"
    /\ LET hidden == load_hidden_themes
       IN IF InHidden(op.id, hidden)
            THEN /\ tPc' = "del_unlink"
                 /\ op' = [op EXCEPT !.hidOk = TRUE]
                 /\ UNCHANGED <<files, ret>>
          ELSE IF hidden.kind = "dict" \/ ~fsOk
            THEN /\ tPc' = "idle"
                 /\ ret' = RaisedIn("delete")
                 /\ UNCHANGED <<files, op>>
          ELSE /\ files' = [files EXCEPT ![HIDDEN_THEMES_FILE] =
                                           HiddenAfterAppend(hidden, op.id)]
               /\ op' = [op EXCEPT !.hidOk = TRUE]
               /\ tPc' = "del_unlink"
               /\ UNCHANGED ret
    /\ UNCHANGED <<token, remote, netlog, deleted, created>>

\* Lines 391-396: unlink the theme file when it exists, return True.
DeleteUnlink(fsOk) ==
    /\ tPc = "del_unlink"
    /\ tPc' = "idle"
    /\ IF files[op.id].kind = "absent"
         THEN /\ ret' = Returned("delete", TRUE, "Deleted theme")
              /\ deleted' = deleted \cup {op.id}
              /\ UNCHANGED <<files, op>>
         ELSE IF fsOk
         THEN /\ files' = [files EXCEPT ![op.id] = AbsentFile]
              /\ op' = [op EXCEPT !.unlinked = TRUE]
              /\ ret' = Returned("delete", TRUE, "Deleted theme")
              /\ deleted' = deleted \cup {op.id}
         ELSE /\ ret' = RaisedIn("delete")
              /\ UNCHANGED <<files, op, deleted>>
    /\ UNCHANGED <<token, remote, netlog, created>>

\* The process dies in the middle of an action. When it dies inside
\* _save_hidden_themes the file opened with "w" may be left truncated.
Crash(torn) ==
    /\ tPc # "idle"
    /\ tPc' = "idle"
    /\ ret' = CrashedIn(op.name)
    /\ IF torn /\ tPc = "del_hidden" /\ ~InHidden(op.id, load_hidden_themes)
            /\ load_hidden_themes.kind = "list"
         THEN files' = [files EXCEPT ![HIDDEN_THEMES_FILE] = CorruptFile]
         ELSE UNCHANGED files
    /\ UNCHANGED <<token, remote, op, netlog, deleted, created>>

\* ---- the environment ----
\* Another writer of the repository changes or removes themes/<id>.json.
OtherWriterPut(id, theme) ==
    /\ remote[id] # RemoteTheme(theme)
    /\ remote' = [remote EXCEPT ![id] = RemoteTheme(theme)]
    /\ UNCHANGED <<token, files, tPc, op, netlog, ret, deleted, created>>

OtherWriterDelete(id) ==
    /\ remote[id].kind # "absent"
    /\ remote' = [remote EXCEPT ![id] = AbsentRemote]
    /\ UNCHANGED <<token, files, tPc, op, netlog, ret, deleted, created>>

\* A theme file appears in the themes directory out of band (a checkout, a
\* redeploy of the repository).
OutOfBandFile(id, theme) ==
    /\ id # HIDDEN_THEMES_FILE
    /\ files[id].kind = "absent"
    /\ files' = [files EXCEPT ![id] = ThemeFile(theme)]
    /\ UNCHANGED <<token, remote, tPc, op, netlog, ret, deleted, created>>

(***************************************************************************)
(* hex_to_rgb (add_border_to_posters.py)                                   *)
(***************************************************************************)

\* No call of a colour or palette function is under way.
FuncIdle ==
    /\ fPc = "idle"
    /\ arg = <<>>
    /\ res = <<>>

\* The editor session before its first run.
EditorIdle ==
    /\ ePc = "idle"
    /\ theme_colors = <<>>
    /\ palette_version = 0
    /\ pickers = <<>>
    /\ message = ""
    /\ theme_select = ""
    /\ last_theme = ""

\* Strings are sequences of characters. The characters of the inputs: two
\* hex digits, a letter that is no hex digit, and the hash sign.
MaxHexLen == 7

HexInputs == UNION {[1..n -> {"1", "B", "g", "#"}] : n \in 0..MaxHexLen}

\* The value int(c, 16) gives a digit.
HexDigitValue ==
    [c \in {"0", "1", "2", "3", "4", "5", "6", "7", "8", "9",
            "a", "b", "c", "d", "e", "f", "A", "B", "C", "D", "E", "F"} |->
       CASE c = "0" -> 0 [] c = "1" -> 1 [] c = "2" -> 2 [] c = "3" -> 3
         [] c = "4" -> 4 [] c = "5" -> 5 [] c = "6" -> 6 [] c = "7" -> 7
         [] c = "8" -> 8 [] c = "9" -> 9
         [] c \in {"a", "A"} -> 10 [] c \in {"b", "B"} -> 11
         [] c \in {"c", "C"} -> 12 [] c \in {"d", "D"} -> 13
         [] c \in {"e", "E"} -> 14 [] c \in {"f", "F"} -> 15]

\* Python's s[a:b] for 0 <= a <= b.
Slice(s, a, b) ==
    IF a >= Len(s) THEN <<>>
    ELSE SubSeq(s, a + 1, IF b < Len(s) THEN b ELSE Len(s))

\* s.lstrip("#")
RECURSIVE LStripHash(_)
LStripHash(s) ==
    IF s # <<>> /\ s[1] = "#" THEN LStripHash(Tail(s)) ELSE s

\* int(s, 16) for a slice of at most two characters; -1 for ValueError
\* (the empty string, or a character that is no hex digit).
Int16(s) ==
    IF s = <<>> \/ \E i \in 1..Len(s) : s[i] \notin DOMAIN HexDigitValue THEN -1
    ELSE IF Len(s) = 1 THEN HexDigitValue[s[1]]
    ELSE 16 * HexDigitValue[s[1]] + HexDigitValue[s[2]]

ValueError == [ok |-> FALSE, rgb |-> <<>>]

\* Lines 19-22.
hex_to_rgb(hex_str) ==
    LET h == LStripHash(hex_str)
        r == Int16(Slice(h, 0, 2))
        g == Int16(Slice(h, 2, 4))
        b == Int16(Slice(h, 4, 6))
    IN IF r = -1 \/ g = -1 \/ b = -1 THEN ValueError
       ELSE [ok |-> TRUE, rgb |-> <<r, g, b>>]

HexToRgb ==
    /\ fPc = "input"
    /\ res' = hex_to_rgb(arg)
    /\ fPc' = "done"
    /\ UNCHANGED <<arg, styleVars, themeVars, loadVars, editorVars>>

(***************************************************************************)
(* parse_oklch_input (streamlit_ui.py)                                     *)
(***************************************************************************)

\* A pasted value is modelled by the tokens that the split on commas and
\* whitespace gives, and by whether they stood inside oklch( ... ). A token
\* is a decimal number, in thousandths, with or without a trailing '%', or
\* a word that float() rejects.
Num(v) == [kind |-> "num", v |-> v, pct |-> FALSE]
Pct(v) == [kind |-> "num", v |-> v, pct |-> TRUE]
Word == [kind |-> "word", v |-> 0, pct |-> FALSE]

\* First tokens: -0.5, 0, 0.005, 0.5, 0.726, 1, 1.2, 72.6, 100, 150, and
\* with '%' those whose hundredth is a whole number of thousandths.
LValues == {-500, 0, 5, 500, 726, 1000, 1200, 72600, 100000, 150000}

\* Second tokens: -0.1, 0, 0.129, 0.5, 0.501, and 0.129%. Third tokens:
\* -1, 0, 253.06, 360, 360.001. A fourth token, as in the URL hash of
\* oklch.com.
OklchParts ==
    LET LTokens == {Num(v) : v \in LValues}
                     \cup {Pct(v) : v \in {w \in LValues : w % 100 = 0}}
                     \cup {Word}
        CTokens == {Num(v) : v \in {-100, 0, 129, 500, 501}} \cup {Pct(129), Word}
        HTokens == {Num(v) : v \in {-1000, 0, 253060, 360000, 360001}} \cup {Word}
        ExtraTokens == {Num(100000), Word}
    IN {<<>>}
         \cup {<<l>> : l \in LTokens}
         \cup {<<l, c>> : l \in LTokens, c \in CTokens}
         \cup {<<l, c, h>> : l \in LTokens, c \in CTokens, h \in HTokens}
         \cup {<<l, c, h, x>> : l \in LTokens, c \in CTokens, h \in HTokens,
                                 x \in ExtraTokens}

OklchInputs == {[wrapped |-> w, parts |-> p] : w \in BOOLEAN, p \in OklchParts}

NoParse == [ok |-> FALSE, lch |-> <<>>]
Parsed(l, c, h) == [ok |-> TRUE, lch |-> <<l, c, h>>]

\* float(t) raises ValueError.
FloatFails(t) == t.kind # "num" \/ t.pct

\* Lines 83-85: l_val = float(parts[0].replace("%", "")), divided by 100
\* when it is greater than 1.
LightnessOf(t) == IF t.v > 1000 THEN t.v \div 100 ELSE t.v

\* Lines 61-91. The wrapper is stripped at lines 75-77 and the parts are
\* the tokens left.
parse_oklch_input(raw) ==
    IF Len(raw.parts) < 3 THEN NoParse
    ELSE IF raw.parts[1].kind # "num" \/ FloatFails(raw.parts[2])
              \/ FloatFails(raw.parts[3]) THEN NoParse
    ELSE LET l_val == LightnessOf(raw.parts[1])
             c_val == raw.parts[2].v
             h_val == raw.parts[3].v
         IN IF ~(0 <= l_val /\ l_val <= 1000 /\ 0 <= c_val /\ c_val <= 500
                  /\ 0 <= h_val /\ h_val <= 360000)
              THEN NoParse
              ELSE Parsed(l_val, c_val, h_val)

ParseOklchInput ==
    /\ fPc = "input"
    /\ res' = parse_oklch_input(arg)
    /\ fPc' = "done"
    /\ UNCHANGED <<arg, styleVars, themeVars, loadVars, editorVars>>

(***************************************************************************)
(* parse_oklch_palette_block (streamlit_ui.py)                             *)
(***************************************************************************)

\* A label is a sequence of tokens: words, each in lower, title or upper
\* case, and the characters between them (space, underscore, hyphen,
\* en-dash U+2013, em-dash U+2014).
Tok(w, c) == [w |-> w, c |-> c]
L(w) == Tok(w, "lower")
Space == L(" ")

RoadClasses ==
    {"motorway", "primary", "secondary", "tertiary", "residential", "default"}

RoadKey(cls) ==
    CASE cls = "motorway" -> "road_motorway"
      [] cls = "primary" -> "road_primary"
      [] cls = "secondary" -> "road_secondary"
      [] cls = "tertiary" -> "road_tertiary"
      [] cls = "residential" -> "road_residential"
      [] cls = "default" -> "road_default"

\* Lines 99-117, as pairs <<label, key>>.
OKLCH_LABEL_TO_KEY ==
    { <<(<<L("background")>>), "bg">>,
      <<(<<L("text")>>), "text">>,
      <<(<<L("gradient")>>), "gradient_color">>,
      <<(<<L("water")>>), "water">>,
      <<(<<L("parks")>>), "parks">> }
      \cup { <<(<<L("road"), Space, L("-"), Space, L(cls)>>), RoadKey(cls)>> :
                cls \in RoadClasses }
      \cup { <<(<<L("road"), L("_"), L(cls)>>), RoadKey(cls)>> : cls \in RoadClasses }

\* OKLCH_LABEL_TO_KEY.get(label), "None" for None.
LabelKey(label) ==
    IF \E e \in OKLCH_LABEL_TO_KEY : e[1] = label
      THEN (CHOOSE e \in OKLCH_LABEL_TO_KEY : e[1] = label)[2]
      ELSE "None"

\* s.strip()
RECURSIVE Strip(_)
Strip(s) ==
    IF s # <<>> /\ s[1] = Space THEN Strip(Tail(s))
    ELSE IF s # <<>> /\ s[Len(s)] = Space THEN Strip(SubSeq(s, 1, Len(s) - 1))
    ELSE s

\* s.replace("  ", " "): every pair of spaces met from the left becomes one
RECURSIVE ReplaceDoubleSpace(_)
ReplaceDoubleSpace(s) ==
    IF Len(s) < 2 THEN s
    ELSE IF s[1] = Space /\ s[2] = Space
      THEN <<Space>> \o ReplaceDoubleSpace(SubSeq(s, 3, Len(s)))
      ELSE <<s[1]>> \o ReplaceDoubleSpace(Tail(s))

\* Lines 95-96: strip, lower, the replace of the en-dash U+2013 (written
\* twice at line 96) and the replace of doubled spaces.
norm(s) ==
    LET stripped == Strip(s)
        lowered == [i \in 1..Len(stripped) |-> L(stripped[i].w)]
        hyphened == [i \in 1..Len(lowered) |->
                       IF lowered[i] = L("en-dash") THEN L("-") ELSE lowered[i]]
    IN ReplaceDoubleSpace(hyphened)

\* label.replace("road - ", "")
RECURSIVE RemoveRoadPrefix(_)
RemoveRoadPrefix(s) ==
    IF Len(s) < 4 THEN s
    ELSE IF SubSeq(s, 1, 4) = <<L("road"), Space, L("-"), Space>>
      THEN RemoveRoadPrefix(SubSeq(s, 5, Len(s)))
      ELSE <<s[1]>> \o RemoveRoadPrefix(Tail(s))

\* Lines 140-142: the key of a normalised label, "None" for None.
KeyOfLabel(label) ==
    IF LabelKey(label) # "None" THEN LabelKey(label)
    ELSE LabelKey(RemoveRoadPrefix(label))

\* Lines 37-51: the colour package is installed (the paste section is
\* offered only then, line 634).
HAS_OKLCH == TRUE

\* Lines 42-50: the hex string of (L, C, H), left uninterpreted.
oklch_to_hex(l, c, h) == <<"#", l, c, h>>

\* A line of a block: whether it has a colon, the text before the first
\* colon and the value after it.
Line(label, value) == [colon |-> TRUE, label |-> label, value |-> value]
NoColonLine == [colon |-> FALSE, label |-> <<>>, value |-> [wrapped |-> FALSE, parts |-> <<>>]]

\* result[key] = hex, for the dict `result` (mapping here)
Put(mapping, key, hex) ==
    [k \in DOMAIN mapping \cup {key} |-> IF k = key THEN hex ELSE mapping[k]]

\* None, with the empty dict in the place of the mapping.
NothingParsed == [ok |-> FALSE, map |-> <<>>]

\* Lines 130-144: the loop over the lines, from the dict so far.
RECURSIVE ParseLines(_, _)
ParseLines(lines, mapping) ==
    IF lines = <<>> THEN mapping
    ELSE LET line == lines[1]
             parsed == parse_oklch_input(line.value)
             key == KeyOfLabel(norm(line.label))
         IN IF ~line.colon \/ ~parsed.ok \/ key = "None" \/ ~HAS_OKLCH
              THEN ParseLines(Tail(lines), mapping)
              ELSE ParseLines(Tail(lines),
                     Put(mapping, key,
                         oklch_to_hex(parsed.lch[1], parsed.lch[2], parsed.lch[3])))

ReturnOf_EmptyMapping(mapping) == [ok |-> TRUE, map |-> mapping]

\* Line 145: `return result if result else None`
ReturnOf(mapping) ==
    IF DOMAIN mapping = {} THEN NothingParsed ELSE [ok |-> TRUE, map |-> mapping]

\* Lines 120-145.
parse_oklch_palette_block(block) == ReturnOf(ParseLines(block, <<>>))

\* ---- the blocks given to it ----
Value1 == [wrapped |-> FALSE, parts |-> <<Num(726), Num(129), Num(253060)>>]
Value2 == [wrapped |-> TRUE, parts |-> <<Pct(72600), Num(0), Num(0)>>]
\* 1.2, 0.129, 253.06
ValueBigL == [wrapped |-> FALSE, parts |-> <<Num(1200), Num(129), Num(253060)>>]
\* two numbers only
ValueShort == [wrapped |-> FALSE, parts |-> <<Num(726), Num(129)>>]

Pad(n) == IF n = 0 THEN <<>> ELSE IF n = 1 THEN <<Space>> ELSE <<Space, Space>>

\* The written forms of "Road - <class>" and of "road_<class>": words in
\* lower, title or upper case, a hyphen, an en-dash or an em-dash, one or
\* two spaces around it, spaces before and after.
RoadLabels ==
    LET Cases == {"lower", "title", "upper"}
        Dashes == {"-", "en-dash", "em-dash"}
    IN
    { Pad(lead) \o <<Tok("road", c1)>> \o Pad(n1) \o <<L(d)>> \o Pad(n2)
        \o <<Tok(cls, c2)>> \o Pad(trail) :
        lead \in {0, 1}, c1 \in Cases, n1 \in {1, 2}, d \in Dashes, n2 \in {1, 2},
        cls \in RoadClasses, c2 \in Cases, trail \in {0, 1} }
      \cup { Pad(lead) \o <<Tok("road", c1), L("_"), Tok(cls, c2)>> \o Pad(trail) :
               lead \in {0, 1}, c1 \in Cases, cls \in RoadClasses, c2 \in Cases,
               trail \in {0, 1} }

\* Lines for blocks of several lines: the labels Background, Road -
\* Motorway, "Road - Water" and one that names no role, each with every
\* value, and a line without a colon.
FewLines ==
    LET FewLabels ==
          { <<Tok("background", "title")>>,
            <<Tok("road", "title"), Space, L("-"), Space, Tok("motorway", "title")>>,
            <<Tok("road", "title"), Space, L("-"), Space, Tok("water", "title")>>,
            <<Tok("accent", "title")>> }
    IN {Line(l, v) : l \in FewLabels, v \in {Value1, Value2, ValueBigL, ValueShort}}
         \cup {NoColonLine}

MaxLines == 3

PaletteBlocks ==
    {<<Line(l, Value1)>> : l \in RoadLabels}
      \cup UNION {[1..n -> FewLines] : n \in 0..MaxLines}

ParsePaletteBlock ==
    /\ fPc = "input"
    /\ res' = parse_oklch_palette_block(arg)
    /\ fPc' = "done"
    /\ UNCHANGED <<arg, styleVars, themeVars, loadVars, editorVars>>

(***************************************************************************)
(* The colour editor: pasted OKLCH values and the pickers (streamlit_ui.py)*)
(***************************************************************************)

\* The greatest palette_version the editor is taken to.
MaxVersion == 2
\* The greatest number of lines pasted into the editor's palette box.
MaxEditorLines == 2

\* A stored colour, written as oklch_to_hex writes colours.
Black == oklch_to_hex(0, 0, 0)

\* What the run shows: "applied" for st.success at line 695, "no_parse_block"
\* for st.error at line 700, "set" for st.success at line 721, "no_parse"
\* for st.error at line 724, "none" when the run shows neither.
Message(kind, key, hex, n) == [kind |-> kind, key |-> key, hex |-> hex, n |-> n]

PickersLoop_StaleState(colors, version, widgets) == widgets

\* Lines 739-748. The pickers are keyed by the palette version (line 746):
\* a picker whose key was drawn before returns the value it holds, a picker
\* with a new key starts from theme_colors (lines 691 and 738). The result
\* is the widgets after the loop; line 748 stores their values.
PickersLoop(colors, version, widgets) ==
    IF widgets.version = version THEN widgets
    ELSE [version |-> version, val |-> colors]

\* Lines 684-702, and 739-748 when the run goes on: "Apply full palette" on
\* the block in the text area (arg); res is `applied`.
ApplyFullPalette(block) ==
    /\ ePc = "ready"
    /\ arg' = block
    /\ res' = parse_oklch_palette_block(block)
    /\ UNCHANGED fPc
    /\ IF res'.ok /\ DOMAIN res'.map # {}
         THEN /\ palette_version < MaxVersion
              /\ theme_colors' =
                   [k \in THEME_KEYS |->
                      IF k \in DOMAIN res'.map THEN res'.map[k] ELSE theme_colors[k]]
              /\ palette_version' = palette_version + 1
              /\ message' = Message("applied", "", <<>>, Cardinality(DOMAIN res'.map))
              /\ ePc' = "rerun"
              /\ UNCHANGED pickers
         ELSE /\ message' = Message("no_parse_block", "", <<>>, 0)
              /\ pickers' = PickersLoop(theme_colors, palette_version, pickers)
              /\ theme_colors' = pickers'.val
              /\ UNCHANGED <<palette_version, ePc>>
    /\ UNCHANGED <<theme_select, last_theme>>

\* Lines 704-726, and 739-748 when the run goes on: "Apply OKLCH" of one
\* value to the key chosen.
ApplyOKLCH(oklch_apply_key, oklch_raw) ==
    /\ ePc = "ready"
    /\ LET parsed == parse_oklch_input(oklch_raw)
       IN IF parsed.ok
            THEN LET hex_val == oklch_to_hex(parsed.lch[1], parsed.lch[2], parsed.lch[3])
                 IN /\ theme_colors' = [theme_colors EXCEPT ![oklch_apply_key] = hex_val]
                    /\ message' = Message("set", oklch_apply_key, hex_val, 0)
                    /\ ePc' = "rerun"
                    /\ UNCHANGED pickers
            ELSE /\ message' = Message("no_parse", "", <<>>, 0)
                 /\ pickers' = PickersLoop(theme_colors, palette_version, pickers)
                 /\ theme_colors' = pickers'.val
                 /\ UNCHANGED ePc
    /\ UNCHANGED <<palette_version, funcVars, theme_select, last_theme>>

\* st.rerun() at lines 698 and 722: the page runs again, to the pickers.
Rerun ==
    /\ ePc = "rerun"
    /\ pickers' = PickersLoop(theme_colors, palette_version, pickers)
    /\ theme_colors' = pickers'.val
    /\ message' = Message("none", "", <<>>, 0)
    /\ ePc' = "ready"
    /\ UNCHANGED <<palette_version, funcVars, theme_select, last_theme>>

\* Lines 739-748: the user picks a colour in one picker and the page runs.
PickColour(key, colour) ==
    /\ ePc = "ready"
    /\ pickers' =
         [PickersLoop(theme_colors, palette_version, pickers) EXCEPT !.val[key] = colour]
    /\ theme_colors' = pickers'.val
    /\ message' = Message("none", "", <<>>, 0)
    /\ UNCHANGED <<ePc, palette_version, funcVars, theme_select, last_theme>>

\* The blocks pasted into the editor: lines that succeed, a short value, an
\* unknown label, no colon.
EditorBlocks ==
    LET EditorLines ==
          { Line(<<Tok("background", "title")>>, Value1),
            Line(<<Tok("background", "title")>>, ValueShort),
            Line(<<Tok("road", "title"), Space, L("-"), Space, Tok("motorway", "title")>>,
                 Value1),
            Line(<<Tok("accent", "title")>>, Value1),
            NoColonLine }
    IN UNION {[1..n -> EditorLines] : n \in 0..MaxEditorLines}

(***************************************************************************)
(* Loading a theme into the editor                                         *)
(***************************************************************************)

\* Lines 164-178.
DEFAULT_THEME ==
    [k \in THEME_KEYS \cup {"name", "description"} |->
       CASE k = "name" -> "Custom"
         [] k = "description" -> "Custom theme created in Streamlit UI"
         [] k = "bg" -> "#F5EDE4"
         [] k = "text" -> "#8B4513"
         [] k = "gradient_color" -> "#F5EDE4"
         [] k = "water" -> "#A8C4C4"
         [] k = "parks" -> "#E8E0D0"
         [] k = "road_motorway" -> "#A0522D"
         [] k = "road_primary" -> "#B8653A"
         [] k = "road_secondary" -> "#C9846A"
         [] k = "road_tertiary" -> "#D9A08A"
         [] k = "road_residential" -> "#E5C4B0"
         [] k = "road_default" -> "#D9A08A"]

\* Colours of stored records: one that no default has, one that is a default.
StoredColours == {"#111111", "#F5EDE4"}

\* The records load_theme can give: any subset of the role keys, with or
\* without the name, each key with a colour string.
StoredRecords ==
    UNION { { [k \in D \cup M |-> c] : c \in StoredColours } :
              D \in SUBSET THEME_KEYS, M \in {{}, {"name"}} }

LoadNames == {"From scratch", "a"}

\* create_map_poster.load_theme(id): the record of themes/<id>.json.
load_theme(id) == files[id].theme

LoadInit ==
    /\ lPc = "input"
    /\ theme_name \in LoadNames
    /\ stored \in StoredRecords
    /\ loaded = NoTheme

MissingValue_None(k) == "None"

load_theme_colors_DefaultsOnly(name, theme) == DEFAULT_THEME

\* Line 186: the default of theme.get, DEFAULT_THEME.get(k, "#000000").
MissingValue(k) ==
    IF k \in DOMAIN DEFAULT_THEME THEN DEFAULT_THEME[k] ELSE "#000000"

\* Lines 181-186, with theme the record load_theme gave.
load_theme_colors(name, theme) ==
    IF name = "" \/ name = "From scratch" THEN DEFAULT_THEME
    ELSE [k \in THEME_KEYS |->
            IF k \in DOMAIN theme THEN theme[k] ELSE MissingValue(k)]

\* Lines 600-610: st.session_state.theme_colors = load_theme_colors(...)
LoadThemeColors ==
    /\ lPc = "input"
    /\ loaded' = load_theme_colors(theme_name, stored)
    /\ lPc' = "loaded"
    /\ UNCHANGED <<theme_name, stored>>

\* The load settled, for the specifications of the other layers.
LoadIdle ==
    /\ LoadInit
    /\ theme_name = "From scratch"
    /\ stored = [k \in {} |-> "#111111"]

\* Lines 189-195: {"name": name, "description": description or "...",
\* **colors}; a key of colors replaces the entry written before it.
build_full_theme(colors, name, description) ==
    [k \in {"name", "description"} \cup DOMAIN colors |->
       IF k \in DOMAIN colors THEN colors[k]
       ELSE IF k = "name" THEN name
       ELSE IF description = "" THEN "Custom theme created in Streamlit UI"
       ELSE description]

\* Lines 1020-1027: "Save as new" builds full_theme from the colours of the
\* session (arg holds the name and the description passed, res full_theme).
BuildFullTheme(name, description) ==
    /\ lPc = "loaded"
    /\ arg' = [name |-> name, description |-> description]
    /\ res' = build_full_theme(loaded, name, description)
    /\ lPc' = "built"
    /\ UNCHANGED <<theme_name, stored, loaded, fPc>>

NextLoad ==
    \/ LoadThemeColors /\ UNCHANGED <<styleVars, themeVars, funcVars, editorVars>>
    \/ \E description \in {"", "Saved from Streamlit UI - my_theme"} :
         BuildFullTheme("My Theme", description)
           /\ UNCHANGED <<styleVars, themeVars, editorVars>>

\* The loader, with the other layers idle.
InitLoad ==
    /\ StyleInit /\ ThemeInit /\ LoadInit /\ FuncIdle /\ EditorIdle
    /\ ~token /\ outFile = "absent" /\ installed

\* The state of the styling client and of the theme layer when neither is
\* in use.
LayersIdle ==
    /\ StyleInit /\ ThemeInit /\ LoadIdle
    /\ ~token /\ outFile = "absent" /\ installed

InitHex ==
    /\ LayersIdle /\ EditorIdle
    /\ fPc = "input"
    /\ arg \in HexInputs
    /\ res = <<>>

SpecHex == InitHex /\ [][HexToRgb]_vars

InitOklch ==
    /\ LayersIdle /\ EditorIdle
    /\ fPc = "input"
    /\ arg \in OklchInputs
    /\ res = <<>>

SpecOklch == InitOklch /\ [][ParseOklchInput]_vars

InitPalette ==
    /\ LayersIdle /\ EditorIdle
    /\ fPc = "input"
    /\ arg \in PaletteBlocks
    /\ res = <<>>

SpecPalette == InitPalette /\ [][ParsePaletteBlock]_vars

\* The user's inputs: the block pasted, the key and the value of "Apply
\* OKLCH", the picker changed (to white).
NextEditor ==
    \/ \E block \in EditorBlocks :
         ApplyFullPalette(block) /\ UNCHANGED <<styleVars, themeVars, loadVars>>
    \/ \E key \in {"bg", "road_motorway"}, raw \in {Value1, Value2, ValueShort} :
         ApplyOKLCH(key, raw) /\ UNCHANGED <<styleVars, themeVars, loadVars>>
    \/ Rerun /\ UNCHANGED <<styleVars, themeVars, loadVars>>
    \/ \E key \in {"bg", "text"} :
         PickColour(key, oklch_to_hex(1000, 0, 0))
           /\ UNCHANGED <<styleVars, themeVars, loadVars>>

\* Lines 600-614 and 739-748: the session after the first run of the page.
InitEditor ==
    /\ LayersIdle
    /\ ePc = "ready"
    /\ theme_colors = [k \in THEME_KEYS |-> Black]
    /\ palette_version = 1
    /\ pickers = [version |-> 1, val |-> theme_colors]
    /\ message = Message("none", "", <<>>, 0)
    /\ theme_select = ""
    /\ last_theme = "From scratch"
    /\ fPc = "idle"
    /\ arg = <<>>
    /\ res = NothingParsed

SpecEditor == InitEditor /\ [][NextEditor]_vars

SpecLoad == InitLoad /\ [][NextLoad]_vars


(***************************************************************************)
(* Theme selection: the listing, the theme cards and the load of the       *)
(* colours (streamlit_ui.py)                                               *)
(***************************************************************************)

\* The greatest palette_version the selection is taken to.
MaxReloads == 3

selected_theme_NoFallback(sel, avail) == IF sel = "" THEN avail[1] ELSE sel

\* Lines 600-602: st.session_state.get("theme_select", available[0]), and
\* available[0] when it is not in the listing.
selected_theme(sel, avail) ==
    IF sel = "" \/ ~(\E i \in 1..Len(avail) : avail[i] = sel) THEN avail[1] ELSE sel

\* Lines 550-553, 600-614 and 739-748: a run of the page, from the listing
\* to the load of the colours and on to the pickers.
RunPage ==
    /\ ePc = "rerun"
    /\ tPc = "idle"
    /\ LET selected == selected_theme(theme_select, available)
           reload == last_theme # selected
           colors == IF ~reload THEN theme_colors
                     ELSE IF selected = "From scratch" THEN DEFAULT_THEME
                     ELSE load_theme_colors(selected, load_theme(selected))
           version == IF reload THEN palette_version + 1 ELSE palette_version
       IN /\ reload => palette_version < MaxReloads
          /\ theme_select' = IF theme_select = "" THEN "" ELSE selected
          /\ last_theme' = selected
          /\ palette_version' = version
          /\ pickers' = PickersLoop(colors, version, pickers)
          /\ theme_colors' = pickers'.val
    /\ message' = Message("none", "", <<>>, 0)
    /\ ePc' = "ready"
    /\ UNCHANGED <<themeVars, funcVars>>

\* Lines 575-582: the card of a listed theme is clicked.
SelectTheme(theme_id) ==
    /\ ePc = "ready"
    /\ tPc = "idle"
    /\ theme_select' = theme_id
    /\ ePc' = "rerun"
    /\ UNCHANGED <<theme_colors, palette_version, pickers, message, last_theme,
                   themeVars, funcVars>>

\* Lines 591-598, joined to the step that ends delete_theme_from_file: the
\* selection goes to "From scratch" when the selected theme was deleted,
\* and the page runs again (after an exception, on the next interaction).
DeleteHandler ==
    /\ theme_select' =
         IF tPc' = "idle" /\ ret'.kind = "returned" /\ ret'.ok /\ theme_select = op.id
           THEN "From scratch" ELSE theme_select
    /\ ePc' = IF tPc' = "idle" THEN "rerun" ELSE ePc
    /\ UNCHANGED <<theme_colors, palette_version, pickers, message, last_theme,
                   funcVars>>

\* Lines 1020-1041 without a token: "Save as new" writes the colours of the
\* session to themes/<id>.json and the page runs again when that succeeded.
SaveAsNew(theme_id, fsOk) ==
    /\ ePc = "ready"
    /\ save_theme_to_file(build_full_theme(theme_colors, "My Theme", ""), theme_id, fsOk)
    /\ ePc' = IF fsOk THEN "rerun" ELSE ePc
    /\ UNCHANGED <<theme_colors, palette_version, pickers, message, theme_select,
                   last_theme, funcVars>>

NextSelect ==
    \/ RunPage /\ UNCHANGED <<styleVars, loadVars>>
    \/ \E i \in 1..Len(available) :
         SelectTheme(available[i]) /\ UNCHANGED <<styleVars, loadVars>>
    \/ \E id \in ThemeIds, fsOk \in BOOLEAN :
         SaveAsNew(id, fsOk) /\ UNCHANGED <<styleVars, loadVars>>
    \/ \E i \in 2..Len(available) :
         /\ ePc = "ready"
         /\ DeleteBegin(available[i])
         /\ UNCHANGED <<styleVars, loadVars, funcVars, editorVars>>
    \/ \E fsOk \in BOOLEAN :
         DeleteHide(fsOk) /\ DeleteHandler /\ UNCHANGED <<styleVars, loadVars>>
    \/ \E fsOk \in BOOLEAN :
         DeleteUnlink(fsOk) /\ DeleteHandler /\ UNCHANGED <<styleVars, loadVars>>

\* The session after the first run of the page, on an empty themes
\* directory and without a token.
InitSelect ==
    /\ LayersIdle /\ FuncIdle
    /\ ePc = "ready"
    /\ theme_colors = DEFAULT_THEME
    /\ palette_version = 1
    /\ pickers = [version |-> 1, val |-> theme_colors]
    /\ message = Message("none", "", <<>>, 0)
    /\ theme_select = ""
    /\ last_theme = "From scratch"

SpecSelect == InitSelect /\ [][NextSelect]_vars

NextThemes ==
    \/ \E t \in EditorThemes, id \in ThemeIds, fsOk \in BOOLEAN :
         save_theme_to_file(t, id, fsOk) /\ UNCHANGED <<styleVars, loadVars, funcVars, editorVars>>
    \/ \E t \in EditorThemes, id \in PushIds : PushBegin(t, id) /\ UNCHANGED <<styleVars, loadVars, funcVars, editorVars>>
    \/ \E how \in How : PushGet(how) /\ UNCHANGED <<styleVars, loadVars, funcVars, editorVars>>
    \/ \E how \in How : PushPut(how) /\ UNCHANGED <<styleVars, loadVars, funcVars, editorVars>>
    \/ \E fsOk \in BOOLEAN : SaveLocal(fsOk) /\ UNCHANGED <<styleVars, loadVars, funcVars, editorVars>>
    \/ \E i \in 1..Len(available) : DeleteBegin(available[i]) /\ UNCHANGED <<styleVars, loadVars, funcVars, editorVars>>
    \/ \E how \in How : DeleteGet(how) /\ UNCHANGED <<styleVars, loadVars, funcVars, editorVars>>
    \/ \E how \in How : DeleteRequest(how) /\ UNCHANGED <<styleVars, loadVars, funcVars, editorVars>>
    \/ \E fsOk \in BOOLEAN : DeleteHide(fsOk) /\ UNCHANGED <<styleVars, loadVars, funcVars, editorVars>>
    \/ \E fsOk \in BOOLEAN : DeleteUnlink(fsOk) /\ UNCHANGED <<styleVars, loadVars, funcVars, editorVars>>
    \/ \E torn \in BOOLEAN : Crash(torn) /\ UNCHANGED <<styleVars, loadVars, funcVars, editorVars>>
    \/ \E t \in EditorThemes, id \in PushIds : OtherWriterPut(id, t) /\ UNCHANGED <<styleVars, loadVars, funcVars, editorVars>>
    \/ \E id \in PushIds : OtherWriterDelete(id) /\ UNCHANGED <<styleVars, loadVars, funcVars, editorVars>>
    \/ \E t \in EditorThemes, id \in ThemeIds : OutOfBandFile(id, t) /\ UNCHANGED <<styleVars, loadVars, funcVars, editorVars>>

\* The theme layer, with the styling client idle.
InitThemes ==
    /\ StyleInit /\ ThemeInit /\ LoadIdle /\ FuncIdle /\ EditorIdle
    /\ outFile = "absent" /\ installed

SpecThemes == InitThemes /\ [][NextThemes]_vars

NextStyling ==
    \/ \E imgExists \in BOOLEAN : StartJob(imgExists) /\ UNCHANGED <<themeVars, loadVars, funcVars, editorVars>>
    \/ WarmUp /\ UNCHANGED <<themeVars, loadVars, funcVars, editorVars>>
    \/ \E r \in Responses : Invoke(r) /\ UNCHANGED <<themeVars, loadVars, funcVars, editorVars>>
    \/ Backoff /\ UNCHANGED <<themeVars, loadVars, funcVars, editorVars>>
    \/ \E fetchOk \in BOOLEAN : Finish(fetchOk) /\ UNCHANGED <<themeVars, loadVars, funcVars, editorVars>>
    \/ NewJob /\ UNCHANGED <<themeVars, loadVars, funcVars, editorVars>>

\* The styling client, with the theme layer idle.
InitStyling == StyleInit /\ ThemeInit /\ LoadIdle /\ FuncIdle /\ EditorIdle /\ ~token

SpecStyling == InitStyling /\ [][NextStyling]_vars

(***************************************************************************)
(* Claims about the styling client                                         *)
(***************************************************************************)

Modes == {"image", "prompt"}

Count(seq, e) == Len(SelectSeq(seq, LAMBDA x : x = e))

\* The error text says rate-limited: it mentions 429 or throttling.
RateLimitedText(c) == ~c.ok /\ c.err.msg \cap {"429", "throttl"} # {}

\* The error text says the image input was rejected.
ImageRejectedText(c) ==
    ~c.ok /\ c.err.msg \cap {"image", "unexpected", "invalid"} # {}

\* A handle, a URL string, or a non-empty list starting with one of them.
ValidOutput(o) ==
    \/ o.tag = "scalar" /\ o.s \in {"FileOutput", "UrlOnly", "HttpStr"}
    \/ o.tag = "list" /\ Len(o.items) > 0
         /\ o.items[1] \in {"FileOutput", "UrlOnly", "HttpStr"}

\* Index of the first backend invocation made in mode m, 0 when there is none.
FirstCallOfMode(m) ==
    LET I == {i \in 1..Len(calls) : calls[i].mode = m}
    IN IF I = {} THEN 0 ELSE CHOOSE i \in I : \A j \in I : i <= j

SwitchPos ==
    LET I == {i \in 1..Len(trace) : trace[i] = "switch"}
    IN IF I = {} THEN 0 ELSE CHOOSE i \in I : \A j \in I : i <= j

\* The part of the trace that belongs to mode m.
TraceOfMode(m) ==
    IF SwitchPos = 0 THEN (IF m = "image" THEN trace ELSE <<>>)
    ELSE IF m = "image" THEN SubSeq(trace, 1, SwitchPos)
    ELSE SubSeq(trace, SwitchPos + 1, Len(trace))

\* C1: for k in {0,1,2}, when the first k invocations of a mode are answered
\* with rate-limited errors and the next one with a valid output, the job
\* succeeds with the output of that invocation, after exactly k backoff sleeps
\* in the mode and a single warm-up sleep. (A job that raised while
\* downloading the output from its URL is set aside: result = Raised.)
C1_RateLimitedThenSuccess ==
    (sPc = "done" /\ result # Raised) =>
      \A m \in Modes : \A k \in 0..2 :
        LET s == FirstCallOfMode(m)
        IN (/\ s > 0
            /\ s + k <= Len(calls)
            /\ \A j \in s..(s + k - 1) : RateLimitedText(calls[j])
            /\ calls[s + k].ok
            /\ ValidOutput(calls[s + k].out))
           => /\ result = Succeeded(s + k)
              /\ Count(TraceOfMode(m), "backoff") = k
              /\ Count(trace, "warmup") = 1

C1_Witness ==
    /\ sPc = "done"
    /\ Len(calls) = 3
    /\ RateLimitedText(calls[1])
    /\ RateLimitedText(calls[2])
    /\ calls[3].ok
    /\ result = Succeeded(3)
    /\ Count(trace, "backoff") = 2
    /\ Count(trace, "warmup") = 1

\* C2: the mode switches from image+prompt to prompt-only at most once per
\* job and never back; an image-rejected error in image+prompt mode followed
\* by a successful prompt-only invocation makes the job succeed with the
\* prompt-only output; an image-rejected error in prompt-only mode (one not
\* taken as rate-limited with retry budget left) ends the job as Failed.
C2_ModeSwitchOnce ==
    /\ Count(trace, "switch") <= 1
    /\ \A i \in 1..Len(calls) : \A j \in i..Len(calls) :
         calls[i].mode = "prompt" => calls[j].mode = "prompt"
    /\ (\E i \in 1..Len(calls) : calls[i].mode = "prompt") => model_input = "prompt"
    /\ \A j \in 1..(Len(calls) - 1) :
         (/\ sPc = "done" /\ result # Raised
          /\ calls[j].mode = "image" /\ ImageRejectedText(calls[j])
          /\ calls[j + 1].mode = "prompt" /\ calls[j + 1].ok
          /\ ValidOutput(calls[j + 1].out))
         => result = Succeeded(j + 1)
    /\ \A j \in 1..Len(calls) :
         (/\ calls[j].mode = "prompt" /\ ImageRejectedText(calls[j])
          /\ ~(RateLimitedText(calls[j]) /\ calls[j].retry < max_retries - 1))
         => j = Len(calls) /\ sPc = "done" /\ result = Failed

C2_Witness ==
    /\ sPc = "done"
    /\ Len(calls) = 2
    /\ calls[1].mode = "image" /\ ImageRejectedText(calls[1])
    /\ calls[2].mode = "prompt" /\ calls[2].ok
    /\ result = Succeeded(2)
    /\ Count(trace, "switch") = 1

\* C3: a rate-limited error that arrives with the retry budget of the mode
\* exhausted (the third of the mode) ends the job as Failed, with no backoff
\* sleep, no mode switch and no further invocation after it, whatever else
\* the error text contains.
C3_ExhaustedBudgetFails ==
    \A j \in 1..Len(calls) :
      (RateLimitedText(calls[j]) /\ calls[j].retry = max_retries - 1)
      => /\ j = Len(calls)
         /\ sPc = "done"
         /\ result = Failed
         /\ trace[Len(trace)] \in {"run_image", "run_prompt"}

\* The error text says neither rate-limited nor image-rejected.
OtherErrorText(c) == ~c.ok /\ ~RateLimitedText(c) /\ ~ImageRejectedText(c)

\* C12: a backend error that is neither rate-limited nor image-rejected ends
\* the job as Failed at once, in either mode: it is the last invocation, and
\* no sleep and no mode switch follows it.
C12_OtherErrorFailsAtOnce ==
    \A j \in 1..Len(calls) :
      OtherErrorText(calls[j]) =>
        /\ j = Len(calls)
        /\ sPc = "done"
        /\ result = Failed
        /\ trace[Len(trace)] = RunEvent(calls[j].mode)
        /\ model_input = calls[j].mode

\* Such an error in prompt-only mode, after the switch.
C12_Witness ==
    /\ sPc = "done"
    /\ Len(calls) = 2
    /\ calls[1].mode = "image" /\ ImageRejectedText(calls[1])
    /\ calls[2].mode = "prompt" /\ OtherErrorText(calls[2])
    /\ result = Failed
    /\ trace = <<"warmup", "run_image", "switch", "run_prompt">>

\* C13: when the replicate package is not installed the job fails at once:
\* no warm-up sleep, no backend invocation, and the output file is untouched.
C13_NoLibraryFailsAtOnce ==
    ~installed =>
      /\ sPc \in {"idle", "done"}
      /\ trace = <<>>
      /\ calls = <<>>
      /\ outFile = outFileAtStart
      /\ sPc = "done" => result = Failed

C13_Witness ==
    /\ ~installed
    /\ sPc = "done"
    /\ result = Failed
    /\ trace = <<>>
    /\ calls = <<>>
    /\ outFile = outFileAtStart

CallsInMode(m) == Cardinality({i \in 1..Len(calls) : calls[i].mode = m})

\* C15: a job makes at most 3 backend invocations in each mode, hence at most
\* 6, one warm-up sleep and at most 2 backoff sleeps per mode, and it ends in
\* Succeeded or Failed.
C15_BoundedInvocations ==
    /\ \A m \in Modes : CallsInMode(m) <= 3
    /\ Len(calls) <= 6
    /\ Count(trace, "warmup") <= 1
    /\ \A m \in Modes : Count(TraceOfMode(m), "backoff") <= 2
    /\ sPc = "done" => result.status \in {"Succeeded", "Failed"}

(***************************************************************************)
(* Claims about the theme persistence layer                                *)
(***************************************************************************)

InSeq(x, seq) == \E i \in 1..Len(seq) : seq[i] = x

\* The ids of the persisted hidden-themes list.
PersistedHidden ==
    IF files[HIDDEN_THEMES_FILE].kind = "list"
      THEN {files[HIDDEN_THEMES_FILE].items[i] :
              i \in 1..Len(files[HIDDEN_THEMES_FILE].items)}
      ELSE {}

\* C4: once delete_theme_from_file(id) has returned True, id is not in the
\* available-themes listing in any later state, whatever operations follow.
C4_DeletedNeverListed == \A id \in deleted : ~InSeq(id, available)

\* C5: the persisted hidden-themes set only grows: an id that is in it stays
\* in it across every save, push, delete and listing.
C5_HiddenOnlyGrows == [][PersistedHidden \subseteq PersistedHidden']_vars

\* C6: at every point of a delete_theme_from_file(id), crash points included,
\* if the delete has unlinked the local theme file then id is in the
\* persisted hidden list.
\* The id then stays out of the listing.
C6_HiddenBeforeUnlink ==
    /\ tPc = "del_unlink" => op.id \in PersistedHidden
    /\ (op.name = "delete" /\ op.unlinked) =>
         op.id \in PersistedHidden /\ ~InSeq(op.id, available)
    /\ (op.name = "delete" /\ ret.kind = "crashed" /\ op.id \notin PersistedHidden) =>
         ~op.unlinked

\* A crash between the save of the hidden list and the unlink.
C6_Witness ==
    /\ tPc = "idle"
    /\ op.name = "delete"
    /\ ret.kind = "crashed"
    /\ op.id \in PersistedHidden
    /\ files[op.id].kind = "theme"
    /\ ~InSeq(op.id, available)

\* C7: a push fetches first and writes at most once after the fetch; when the
\* fetch finds no resource the write carries no token (create); when the
\* fetch finds the resource, as in a second push of an id the first push
\* created, the write carries the token of the content fetched (update).
C7_CreateThenUpdate ==
    op.name = "push" =>
      /\ Len(netlog) <= 2
      /\ Len(netlog) >= 1 => netlog[1].m = "GET" /\ netlog[1].id = op.id
      /\ Len(netlog) = 2 =>
           /\ netlog[2].m = "PUT" /\ netlog[2].id = op.id
           /\ netlog[1].status = 404 => netlog[2].sha = NoSha
           /\ netlog[1].status = 200 =>
                netlog[2].sha = ShaOf(op.fetched) /\ netlog[2].sha # NoSha
      /\ (tPc = "idle" /\ ret.kind = "returned" /\ ret.ok) =>
           /\ Len(netlog) = 2
           /\ netlog[2].status \in {200, 201}

C7_Witness ==
    /\ tPc = "idle"
    /\ op.name = "push"
    /\ op.id \in created
    /\ ret = Returned("push", TRUE, "Saved to GitHub")
    /\ Len(netlog) = 2
    /\ netlog[1].status = 200
    /\ netlog[2].sha = ShaOf(op.fetched)
    /\ netlog[2].sha # NoSha
    /\ netlog[2].status = 200

\* C8: when another writer has changed the resource between the fetch and the
\* write of a push (both answered by the store), the write carries the token
\* fetched, which is stale; the store rejects it, the push returns ok=false
\* with the store's conflict message without a second write, and the resource
\* keeps the other writer's content.
C8_StaleWriteRejected ==
    [][(/\ tPc = "push_put"
        /\ Len(netlog') = 2
        /\ netlog[1].status \in {200, 404}
        /\ netlog'[2].status \notin {0, 500}
        /\ remote[op.id] # op.fetched)
       => /\ netlog'[2].m = "PUT"
          /\ netlog'[2].sha = ShaOf(op.fetched)
          /\ netlog'[2].sha # ShaOf(remote[op.id])
          /\ netlog'[2].status \in {409, 422}
          /\ ret' = Returned("push", FALSE, RemoteMessage(netlog'[2].status))
          /\ tPc' = "save_local"
          /\ remote' = remote]_vars

C8_Witness ==
    /\ tPc = "idle"
    /\ op.name = "push"
    /\ Len(netlog) = 2
    /\ netlog[1].status = 200
    /\ netlog[2].status = 409
    /\ netlog[2].sha = ShaOf(op.fetched)
    /\ ret = Returned("push", FALSE, "conflict")
    /\ remote[op.id].kind = "theme"
    /\ remote[op.id] # op.fetched
    /\ remote[op.id] # RemoteTheme(op.theme)

\* C9: _save_theme_to_github never raises: every failure, a network error of
\* the fetch or of the write included, comes back as (False, message).
C9_PushNeverRaises == ret.op = "push" => ret.kind # "raised"

\* C10: without a bearer credential the remote push and the remote delete
\* report failure and issue no network request.
C10_NoTokenNoRequest ==
    ~token =>
      /\ netlog = <<>>
      /\ op.name = "push" =>
           /\ tPc \in {"save_local", "idle"}
           /\ ret \in {Returned("push", FALSE, "GITHUB_TOKEN not configured"),
                        CrashedIn("push")}
      /\ (op.name = "delete" /\ op.id # "From scratch") =>
           ~op.ghOk /\ op.ghMsg = "GITHUB_TOKEN not configured"

C10_Witness ==
    /\ ~token
    /\ op.name = "push"
    /\ ret = Returned("push", FALSE, "GITHUB_TOKEN not configured")
    /\ netlog = <<>>

\* The handler of a save button has come to its end (the process did not die).
SaveHandlerEnded == op.name = "push" /\ tPc = "idle" /\ ret.kind # "crashed"

\* C11: every "Update current theme" or "Save as new" ends with one of three
\* outcomes shown (remote success, local-only save, failure), and whenever
\* the push did not succeed the local save_theme_to_file was attempted,
\* whatever the remote store and the file system do.
C11_SaveEndsInOneOutcome ==
    SaveHandlerEnded =>
      /\ op.shown \in {"remote_success", "local_success", "error"}
      /\ ~(ret.kind = "returned" /\ ret.ok) => op.localTried

\* C16: the remote delete fetches first; when the fetch finds no resource it
\* issues no DELETE and reports "not found", and the caller's delete goes on;
\* when the fetch finds the resource it issues one DELETE with the token
\* fetched; a DELETE never goes out without a token.
C16_DeleteFetchesFirst ==
    (op.name = "delete" /\ op.id # "From scratch") =>
      /\ Len(netlog) <= 2
      /\ Len(netlog) >= 1 => netlog[1].m = "GET" /\ netlog[1].id = op.id
      /\ Len(netlog) = 2 =>
           /\ netlog[2].m = "DELETE" /\ netlog[2].id = op.id
           /\ netlog[1].status = 200
           /\ netlog[2].sha # NoSha
           /\ netlog[2].sha = ShaOf(op.fetched)
      /\ (Len(netlog) >= 1 /\ netlog[1].status = 404) =>
           /\ Len(netlog) = 1
           /\ ~op.ghOk
           /\ op.ghMsg = "Theme not found on GitHub"
      /\ (Len(netlog) >= 1 /\ netlog[1].status = 200
            /\ tPc \in {"del_hidden", "del_unlink"}) => Len(netlog) = 2

\* A delete of a theme that has no remote resource goes through.
C16_Witness ==
    /\ token
    /\ tPc = "idle"
    /\ op.name = "delete"
    /\ netlog = <<Request("GET", op.id, NoSha, 404)>>
    /\ op.ghMsg = "Theme not found on GitHub"
    /\ ret = Returned("delete", TRUE, "Deleted theme")
    /\ op.id \in PersistedHidden

\* C17: delete_theme_from_file(id), id not reserved, returns True exactly
\* when the hidden-list update or the removal of the local file succeeded.
C17_TrueIffEitherSucceeded ==
    (/\ op.name = "delete" /\ op.id # "From scratch"
     /\ tPc = "idle" /\ ret.kind \in {"returned", "raised"})
    => ((ret.kind = "returned" /\ ret.ok) <=> (op.hidOk \/ op.unlinked))

\* C18: an OSError of save_theme_to_file in a save button's handler is shown
\* to the user, also when the push succeeded.
C18_LocalErrorSurfaced ==
    (op.name = "push" /\ op.localRaised) => op.shown = "error"

\* C19: when the remote delete failed and the local delete succeeded, what
\* delete_theme_from_file returns differs from what it returns when both
\* succeeded.
C19_RemoteFailureReported ==
    (/\ op.name = "delete" /\ tPc = "idle"
     /\ ret.kind = "returned" /\ ret.ok /\ ~op.ghOk)
    => ret # Returned("delete", TRUE, "Deleted theme")

(***************************************************************************)
(* Claims about loading                                                    *)
(***************************************************************************)

\* C20: load_theme_colors gives a value for every one of the 11 role keys,
\* for every stored record, complete or partial: the stored value when the
\* record has the key, the value of DEFAULT_THEME otherwise; no key is
\* missing or None.
C20_LoadedComplete ==
    lPc = "loaded" =>
      /\ Cardinality(THEME_KEYS) = 11
      /\ THEME_KEYS \subseteq DOMAIN loaded
      /\ \A k \in THEME_KEYS : loaded[k] # "None"
      /\ theme_name # "From scratch" =>
           \A k \in THEME_KEYS :
             /\ k \in DOMAIN stored => loaded[k] = stored[k]
             /\ k \notin DOMAIN stored => loaded[k] = DEFAULT_THEME[k]

\* A record with only two of the keys.
C20_Witness ==
    /\ lPc = "loaded"
    /\ theme_name = "a"
    /\ DOMAIN stored = {"bg", "water"}
    /\ loaded["bg"] = "#111111"
    /\ loaded["water"] = "#111111"
    /\ loaded["text"] = "#8B4513"
    /\ loaded["road_default"] = "#D9A08A"

(***************************************************************************)
(* Claims about saving, loading and the hidden-themes file                 *)
(***************************************************************************)

\* save_theme_to_file has just returned the path.
SavedOk == op.name = "save" /\ ret = Returned("save", TRUE, "path")

RoleColours(t) == [k \in THEME_KEYS |-> t[k]]

\* Loading the id just saved gives the role colours of the theme saved.
RoundTripHolds ==
    SavedOk =>
      /\ files[op.id].kind = "theme"
      /\ load_theme_colors(op.id, load_theme(op.id)) = RoleColours(op.theme)

C22_CorruptHiddenIsEmpty ==
    files[HIDDEN_THEMES_FILE].kind # "list" =>
      load_hidden_themes = [kind |-> "list", items |-> <<>>, keys |-> {}]

(***************************************************************************)
(* Claims about the colour functions                                       *)
(***************************************************************************)

SixHexDigits(s) == Len(s) = 6 /\ \A i \in 1..6 : s[i] \in DOMAIN HexDigitValue

\* The string without its optional leading '#'.
WithoutHash(s) == IF s # <<>> /\ s[1] = "#" THEN Tail(s) ELSE s

\* C23: hex_to_rgb returns three channels in 0..255 for exactly 6 hex digits,
\* the same with and without a leading '#', and fails for every input that
\* is not exactly 6 hex digits after the '#' is stripped.
C23_HexToRgb ==
    fPc = "done" =>
      /\ res.ok <=> SixHexDigits(WithoutHash(arg))
      /\ res.ok => \A i \in 1..3 : res.rgb[i] \in 0..255
      /\ SixHexDigits(arg) => hex_to_rgb(<<"#">> \o arg) = res

\* The three numbers a pasted value gives: three numeric tokens, the second
\* and third without '%'.
ThreeNumbers(raw) ==
    /\ Len(raw.parts) >= 3
    /\ raw.parts[1].kind = "num"
    /\ ~FloatFails(raw.parts[2])
    /\ ~FloatFails(raw.parts[3])

\* The lightness a first token stands for: its number, divided by 100 when
\* it carries '%'.
GivenL(t) == IF t.pct THEN t.v \div 100 ELSE t.v

\* C24: parse_oklch_input fails when the lightness is outside [0,1], the
\* chroma outside [0,0.5] or the hue outside [0,360], and succeeds with the
\* given (L, C, H) when all three are in range.
C24_RangeChecked ==
    (fPc = "done" /\ ThreeNumbers(arg)) =>
      LET l == GivenL(arg.parts[1])
          c == arg.parts[2].v
          h == arg.parts[3].v
          inRange == /\ 0 <= l /\ l <= 1000
                     /\ 0 <= c /\ c <= 500
                     /\ 0 <= h /\ h <= 360000
      IN /\ res.ok <=> inRange
         /\ res.ok => res.lch = <<l, c, h>>

\* C25: a first token with '%' is read as its number divided by 100, for
\* every value, and a first token without '%' is read as written.
C25_PercentDivides ==
    (fPc = "done" /\ res.ok) => res.lch[1] = GivenL(arg.parts[1])

(***************************************************************************)
(* Claims about the palette parser and the colour editor                   *)
(***************************************************************************)

\* A line succeeds: it has a colon, its label is recognised and its value
\* parses in range.
Succeeds(line) ==
    /\ line.colon
    /\ KeyOfLabel(norm(line.label)) # "None"
    /\ parse_oklch_input(line.value).ok

SucceedingLines(block) == {i \in 1..Len(block) : Succeeds(block[i])}

\* C26: the mapping returned has exactly as many entries as the block has
\* well-formed lines, also when two well-formed lines name the same role.
C26_EntriesMatchLines ==
    fPc = "done" => Cardinality(DOMAIN res.map) = Cardinality(SucceedingLines(arg))

\* C27: "Apply full palette" gets None exactly when no line of the block
\* succeeds and never gets an empty mapping; on None it shows the
\* parse-failure message and changes no colour.
C27_NothingParsedSignal ==
    [][(ePc = "ready" /\ message'.kind \in {"applied", "no_parse_block"}) =>
         /\ res'.ok <=> SucceedingLines(arg') # {}
         /\ res'.ok => DOMAIN res'.map # {}
         /\ res'.ok => message'.kind = "applied"
         /\ ~res'.ok =>
              /\ message'.kind = "no_parse_block"
              /\ theme_colors' = theme_colors
              /\ palette_version' = palette_version]_vars

\* A block of two lines, none of which succeeds, was pasted after a colour
\* was picked, and the parse failure is shown.
C27_Witness ==
    /\ message.kind = "no_parse_block"
    /\ Len(arg) = 2
    /\ theme_colors["text"] # Black

\* The road class a label names.
ClassOf(label) ==
    CHOOSE cls \in RoadClasses : \E i \in 1..Len(label) : label[i].w = cls

\* C28: every written form of "Road - <class>" (any case, spaces around,
\* doubled spaces, en-dash or em-dash for the hyphen) and of "road_<class>"
\* resolves to the key road_<class>.
C28_LabelVariantsResolve ==
    (fPc = "done" /\ Len(arg) = 1 /\ arg[1].label \in RoadLabels) =>
      /\ res.ok
      /\ DOMAIN res.map = {RoadKey(ClassOf(arg[1].label))}

\* The block without its i-th line.
RemoveAt(block, i) == SubSeq(block, 1, i - 1) \o SubSeq(block, i + 1, Len(block))

\* C29: a line whose normalised label is not in the label table, a line
\* without a colon and a line whose value does not parse contribute
\* nothing: the result is that of the block without the line.
C29_BadLinesSkipped ==
    fPc = "done" =>
      \A i \in 1..Len(arg) :
        (\/ ~arg[i].colon
         \/ LabelKey(norm(arg[i].label)) = "None"
         \/ ~parse_oklch_input(arg[i].value).ok)
        => res = parse_oklch_palette_block(RemoveAt(arg, i))

\* C30: after "Apply OKLCH" reported "Set <key> to <hex>", theme_colors[key]
\* is that hex at the end of the rerun that follows.
C30_AppliedValueSurvivesRerun ==
    [][(ePc = "rerun" /\ message.kind = "set" /\ ePc' = "ready") =>
         theme_colors'[message.key] = message.hex]_vars

(***************************************************************************)
(* Claims about the order of the backend invocations and the output file   *)
(***************************************************************************)

IsRun(e) == e \in {"run_image", "run_prompt"}

\* C31: the first backend invocation of a job comes right after the single
\* warm-up sleep, every later invocation comes right after a backoff sleep
\* or the switch to prompt-only mode, and no invocation follows one that
\* returned without raising.
C31_InvocationsPreceded ==
    /\ Count(trace, "warmup") <= 1
    /\ \A i \in 1..Len(trace) :
         IsRun(trace[i]) =>
           IF \E j \in 1..(i - 1) : IsRun(trace[j])
             THEN trace[i - 1] \in {"backoff", "switch"}
             ELSE i = 2 /\ trace[1] = "warmup"
    /\ \A j \in 1..(Len(calls) - 1) : ~calls[j].ok

\* C32: a job that returned None has left the output file as it was when
\* the job started, and only a job that returns the path has written it.
C32_FailureLeavesFile ==
    sPc = "done" =>
      /\ result = Failed => outFile = outFileAtStart
      /\ outFile # outFileAtStart => result.status = "Succeeded"

(***************************************************************************)
(* Claims about the write without a version token                          *)
(***************************************************************************)

\* C33: a push sends a PUT without a sha only after its GET was answered
\* with "not found"; after a GET that failed otherwise no PUT without a sha
\* is sent for a resource that exists.
C33_TokenlessWriteOnlyIfAbsent ==
    op.name = "push" =>
      \A i \in 1..Len(netlog) :
        (netlog[i].m = "PUT" /\ netlog[i].sha = NoSha) =>
          \E j \in 1..(i - 1) :
            netlog[j].m = "GET" /\ netlog[j].status = 404

(***************************************************************************)
(* Claims about build_full_theme                                           *)
(***************************************************************************)

\* C34: the record build_full_theme returns carries the name passed and the
\* description passed (the default description when it is empty), for the
\* colours of every session, the one loaded for "From scratch" included.
C34_BuiltThemeNamed ==
    lPc = "built" =>
      /\ res["name"] = arg.name
      /\ res["description"] =
           (IF arg.description = "" THEN "Custom theme created in Streamlit UI"
            ELSE arg.description)

(***************************************************************************)
(* Claims about the editor session                                         *)
(***************************************************************************)

\* C35: "Apply full palette", when it succeeds, increments palette_version
\* and sets every applied key to its hex while the other keys keep their
\* colours; at the end of the rerun that follows every key still holds that
\* colour, the pickers having started again from the new values.
C35_AppliedPaletteSurvivesRerun ==
    [][/\ (ePc = "ready" /\ message'.kind = "applied") =>
            /\ palette_version' = palette_version + 1
            /\ \A k \in THEME_KEYS :
                 theme_colors'[k] =
                   (IF k \in DOMAIN res'.map THEN res'.map[k] ELSE theme_colors[k])
       /\ (ePc = "rerun" /\ message.kind = "applied" /\ ePc' = "ready") =>
            /\ theme_colors' = theme_colors
            /\ pickers'.val = theme_colors]_vars

\* After a colour was picked for text, a palette naming bg was applied and
\* the page has run again.
C35_Witness ==
    /\ ePc = "ready"
    /\ palette_version = 2
    /\ res.ok /\ "bg" \in DOMAIN res.map
    /\ theme_colors["bg"] = res.map["bg"]
    /\ theme_colors["text"] # Black

\* C36: at the end of every run of the page that loads the colours, the
\* selected theme is in the listing of that moment ("From scratch" and the
\* persisted themes not hidden), so it is neither hidden nor deleted; a
\* selection that is not listed has fallen back to "From scratch"; and the
\* colours were reloaded when the selected theme is not the last one.
C36_SelectionInListing ==
    [][(ePc = "rerun" /\ ePc' = "ready") =>
         /\ InSeq(last_theme', available')
         /\ theme_select' \in {"", last_theme'}
         /\ \A id \in ThemeIds :
              (InHidden(id, load_hidden_themes') \/ files'[id].kind # "theme")
                => last_theme' # id
         /\ (theme_select # "" /\ ~InSeq(theme_select, available))
              => last_theme' = "From scratch"
         /\ last_theme' # last_theme =>
              \A k \in THEME_KEYS :
                theme_colors'[k] =
                  (IF last_theme' = "From scratch" THEN DEFAULT_THEME[k]
                   ELSE files'[last_theme'].theme[k])]_vars

\* The selected theme was hidden by a delete that raised at the unlink, and
\* the next run has fallen back to "From scratch" and reloaded.
C36_Witness ==
    /\ ePc = "ready"
    /\ op.name = "delete" /\ ret.kind = "raised"
    /\ InHidden(op.id, load_hidden_themes)
    /\ theme_select = "From scratch"
    /\ last_theme = "From scratch"
    /\ palette_version = 3
====
